---- MODULE Spec2Model ----
(***************************************************************************)
(* Model of static/js/chatbot.js: the chat widget's conversation           *)
(* controller (sendMessage), message renderer (addMessage), suggestion     *)
(* panel (addSuggestions), typing indicator and the two start-up           *)
(* suggestion sources (welcome timer and /api/chatbot/suggestions loader). *)
(*                                                                         *)
(* Strings are sequences of one-character strings, so that trim() and the  *)
(* newline replacement are computed rather than assumed.  The children of  *)
(* #chatMessages are a sequence of element records.  The timestamp field   *)
(* of a chatHistory record is left out (it is never read).                 *)
(***************************************************************************)
EXTENDS Naturals, Integers, Sequences, FiniteSets, TLC

VARIABLES chatHistory,    \* the module-level array chatHistory
          chatMessages,   \* children of the element #chatMessages
          messageInput,   \* value of the input field #messageInput
          inflight,       \* suspended sendMessage invocations, by request id
          nextId,         \* number of requests issued so far
          welcomeTimer,   \* the 500 ms welcome timer is still pending
          loader,         \* position of the start-up suggestion loader
          loaderData,     \* suggestions captured by the loader's 1000 ms timer
          lastEvent       \* the event handled last (history variable)

vars == <<chatHistory, chatMessages, messageInput, inflight, nextId,
          welcomeTimer, loader, loaderData, lastEvent>>

----------------------------------------------------------------------------
(* Bounds of the model *)

\* Number of sendMessage invocations that issue a request, in SpecChat.
MaxSubmits == 2

\* The same while the page starts up, in Spec.
MaxStartupSubmits == 1

\* The same in SpecOverlap and FairSpec.
MaxOverlap == 3

\* Longest suggestion list the suggestions endpoint answers with.
MaxServerSuggestions == 5

----------------------------------------------------------------------------
(* Strings *)

\* Characters String.prototype.trim removes (those the model uses).
Whitespace == {" ", "\n"}

\* The value `undefined` where a string is expected.
Undefined == <<"undefined">>

RECURSIVE TrimStart(_)
TrimStart(s) ==
    IF s # <<>> /\ Head(s) \in Whitespace THEN TrimStart(Tail(s)) ELSE s

RECURSIVE TrimEnd(_)
TrimEnd(s) ==
    IF s # <<>> /\ s[Len(s)] \in Whitespace
    THEN TrimEnd(SubSeq(s, 1, Len(s) - 1)) ELSE s

\* Mutant of Trim: the value is used as typed (trim() left out).
TrimOmitted(s) == s

\* input.value.trim()
Trim(s) == TrimEnd(TrimStart(s))

\* text.replace(/\n/g, '<br>')
ReplaceNewlines(text) ==
    [i \in 1..Len(text) |-> IF text[i] = "\n" THEN "<br>" ELSE text[i]]

\* `${v}` in a template literal
TemplateString(v) ==
    IF v = Undefined THEN <<"u", "n", "d", "e", "f", "i", "n", "e", "d">> ELSE v

\* "Sorry, I'm having trouble connecting. Please try again." (abbreviated)
FallbackText == <<"S", "o", "r", "r", "y">>

\* The four welcome suggestions, abbreviated to their initials:
\* "Recommend a fantasy book", "Search for Stephen King",
\* "Show top rated books", "What genres do you have?"
WelcomeSuggestions == << <<"R">>, <<"S", "K">>, <<"S", "t">>, <<"W">> >>

----------------------------------------------------------------------------
(* Elements *)

TypingDiv == [tag |-> "typing-indicator", id |-> "typingIndicator"]

IsTypingIndicator(e) == e.tag = "typing-indicator"

IsMessage(e) == e.tag = "message"

IsSuggestions(e) == e.tag = "suggestions"

\* One decimal digit of a rating.
Digit(n) ==
    CASE n = 0 -> "0" [] n = 1 -> "1" [] n = 2 -> "2" [] n = 3 -> "3"
      [] n = 4 -> "4" [] OTHER -> "5"

\* book.genre ? ... : ''   (a present, non-empty string is truthy)
GenreTruthy(book) == "genre" \in DOMAIN book /\ book.genre # <<>>

\* book.rating ? ... : ''  (a present, non-zero number is truthy)
RatingTruthy(book) == "rating" \in DOMAIN book /\ book.rating # 0

\* The lines of one book card, in the template's order.
BookCard(book) ==
    << [cls |-> "book-title", text |-> book.title],
       [cls |-> "book-author", text |-> <<"b", "y", " ">> \o book.author] >>
    \o (IF GenreTruthy(book)
        THEN << [cls |-> "genre", text |-> book.genre] >> ELSE <<>>)
    \o (IF RatingTruthy(book)
        THEN << [cls |-> "book-rating",
                 text |-> <<Digit(book.rating), "/", "5">>] >> ELSE <<>>)

\* addSuggestions appends one panel with one chip per suggestion.
addSuggestions(cm, suggestions) ==
    Append(cm, [tag |-> "suggestions", chips |-> suggestions])

\* text.replace throws a TypeError when text is not a string.
addMessageThrows(text, type) == type = "text" /\ text = Undefined

MessageDiv(text, isUser, type, books) ==
    [tag   |-> "message",
     cls   |-> IF isUser THEN "user-message" ELSE "bot-message",
     html  |-> IF type = "text" THEN ReplaceNewlines(text)
               ELSE IF type = "book_list"
                    THEN <<"<strong>">> \o TemplateString(text) \o <<"</strong>">>
                    ELSE <<>>,
     cards |-> IF type = "book_list"
               THEN [i \in 1..Len(books) |-> BookCard(books[i])]
               ELSE <<>>]

\* Mutant of addMessage: addSuggestions is called whatever the length
\* (the `suggestions.length > 0` test left out).
addMessageAlwaysSuggests(cm, text, isUser, type, books, suggestions) ==
    addSuggestions(Append(cm, MessageDiv(text, isUser, type, books)),
                   suggestions)

\* addMessage, when it does not throw: the children of #chatMessages after it.
addMessage(cm, text, isUser, type, books, suggestions) ==
    LET appended == Append(cm, MessageDiv(text, isUser, type, books))
    IN  IF Len(suggestions) > 0
        THEN addSuggestions(appended, suggestions)
        ELSE appended

showTypingIndicator(cm) == Append(cm, TypingDiv)

\* Positions of the elements getElementById('typingIndicator') could find.
IndicatorPositions(cm) == {i \in DOMAIN cm : IsTypingIndicator(cm[i])}

RemoveAt(cm, i) == SubSeq(cm, 1, i - 1) \o SubSeq(cm, i + 1, Len(cm))

Min(S) == CHOOSE m \in S : \A n \in S : m <= n

\* getElementById returns the first match in document order; remove() it.
hideTypingIndicator(cm) ==
    IF IndicatorPositions(cm) # {}
    THEN RemoveAt(cm, Min(IndicatorPositions(cm)))
    ELSE cm

----------------------------------------------------------------------------
(* The conversation state sendMessage and its continuations work on *)

State ==
    [chatHistory  |-> chatHistory,
     chatMessages |-> chatMessages,
     messageInput |-> messageInput,
     inflight     |-> inflight,
     nextId       |-> nextId]

\* The invocation suspended at `await fetch(...)`: its request carries the
\* payload {message}; histAtSubmit remembers chatHistory at the submit.
NewRequest(st, message) ==
    [id |-> st.nextId + 1, message |-> message, stage |-> "fetch",
     ok |-> TRUE, histAtSubmit |-> st.chatHistory]

\* sendMessage up to its first await.
sendMessage(st) ==
    LET message == Trim(st.messageInput)
    IN  IF message = <<>>
        THEN st
        ELSE [st EXCEPT
                !.chatMessages = showTypingIndicator(
                    addMessage(@, message, TRUE, "text", <<>>, <<>>)),
                !.messageInput = <<>>,
                !.inflight = @ \cup {NewRequest(st, message)},
                !.nextId = @ + 1]

\* Mutant of sendMessageSteps: the request is issued first, the user message
\* and the indicator are rendered after it.
sendMessageStepsFetchFirst(st) ==
    LET message == Trim(st.messageInput)
        s1 == [st EXCEPT !.inflight = @ \cup {NewRequest(st, message)},
                         !.nextId = @ + 1]
        s2 == [s1 EXCEPT !.chatMessages =
                  addMessage(@, message, TRUE, "text", <<>>, <<>>)]
        s3 == [s2 EXCEPT !.messageInput = <<>>]
        s4 == [s3 EXCEPT !.chatMessages = showTypingIndicator(@)]
    IN  IF message = <<>>
        THEN <<>>
        ELSE << [event |-> "requestIssued", st |-> s1],
                [event |-> "userMessage", st |-> s2],
                [event |-> "inputCleared", st |-> s3],
                [event |-> "indicatorShown", st |-> s4] >>

\* The statements of sendMessage up to its first await, one by one, each with
\* the state it leaves: addMessage(message, true); input.value = '';
\* showTypingIndicator(); fetch(...).
sendMessageSteps(st) ==
    LET message == Trim(st.messageInput)
        s1 == [st EXCEPT !.chatMessages =
                  addMessage(@, message, TRUE, "text", <<>>, <<>>)]
        s2 == [s1 EXCEPT !.messageInput = <<>>]
        s3 == [s2 EXCEPT !.chatMessages = showTypingIndicator(@)]
        s4 == [s3 EXCEPT !.inflight = @ \cup {NewRequest(st, message)},
                         !.nextId = @ + 1]
    IN  IF message = <<>>
        THEN <<>>
        ELSE << [event |-> "userMessage", st |-> s1],
                [event |-> "inputCleared", st |-> s2],
                [event |-> "indicatorShown", st |-> s3],
                [event |-> "requestIssued", st |-> s4] >>

\* Mutant of chipOnClick: the label is added to what the field holds
\* (value += suggestion).
chipOnClickAppends(st, suggestion) ==
    sendMessage([st EXCEPT !.messageInput = @ \o suggestion])

\* chip.onclick of the chip made for `suggestion`.
chipOnClick(st, suggestion) ==
    sendMessage([st EXCEPT !.messageInput = suggestion])

\* handleKeyPress(event) with event.key = key.
handleKeyPress(st, key) ==
    IF key = "Enter" THEN sendMessage(st) ELSE st

\* Mutant of catchBlock: the indicator is not hidden on failure.
catchBlockKeepsIndicator(st, r, cm) ==
    [st EXCEPT
        !.chatMessages = addMessage(cm, FallbackText, FALSE, "text",
                                    <<>>, <<>>),
        !.inflight = @ \ {r}]

\* The catch block of sendMessage, entered with children cm.
catchBlock(st, r, cm) ==
    [st EXCEPT
        !.chatMessages = addMessage(hideTypingIndicator(cm), FallbackText,
                                    FALSE, "text", <<>>, <<>>),
        !.inflight = @ \ {r}]

\* fetch(...) resolved with a response whose ok flag is `ok`:
\* the invocation goes on to `await response.json()`.
fetchResolved(st, r, ok) ==
    [st EXCEPT !.inflight = (@ \ {r}) \cup
                            {[r EXCEPT !.stage = "json", !.ok = ok]}]

\* fetch(...) rejected.
fetchRejected(st, r) == catchBlock(st, r, st.chatMessages)

\* response.json() rejected: the body is not JSON.
jsonRejected(st, r) == catchBlock(st, r, st.chatMessages)

\* data.text
DataText(data) == IF "text" \in DOMAIN data THEN data.text ELSE Undefined

\* Mutant of DataType: data.type is passed on as it is (no default).
DataTypeNoDefault(data) ==
    IF "type" \in DOMAIN data THEN data.type ELSE "undefined"

\* data.type || 'text'
DataType(data) ==
    IF "type" \in DOMAIN data /\ data.type # "" THEN data.type ELSE "text"

\* data.books || []
DataBooks(data) == IF "books" \in DOMAIN data THEN data.books ELSE <<>>

\* data.suggestions || []
DataSuggestions(data) ==
    IF "suggestions" \in DOMAIN data THEN data.suggestions ELSE <<>>

\* A body whose `suggestions` is a string and not an array is written with
\* the field suggestionsString. suggestions.length > 0 holds for a non-empty
\* string, and suggestions.forEach(...) in addSuggestions then throws a
\* TypeError: the message of addMessage is appended already, the panel is not.
addSuggestionsThrows(data) ==
    "suggestionsString" \in DOMAIN data /\ data.suggestionsString # <<>>

\* The request issued last.
LatestRequest(st) == CHOOSE q \in st.inflight : \A p \in st.inflight : p.id <= q.id

\* Mutant of jsonResolved: `message` is shared by all invocations, so the
\* record gets the message of the request issued last.
jsonResolvedSharedMessage(st, r, data) ==
    LET hidden == hideTypingIndicator(st.chatMessages)
    IN  IF addMessageThrows(DataText(data), DataType(data))
        THEN catchBlock(st, r, hidden)
        ELSE IF addSuggestionsThrows(data)
        THEN catchBlock(st, r,
                 Append(hidden, MessageDiv(DataText(data), FALSE,
                                           DataType(data), DataBooks(data))))
        ELSE [st EXCEPT
                !.chatMessages = addMessage(hidden, DataText(data), FALSE,
                                            DataType(data), DataBooks(data),
                                            DataSuggestions(data)),
                !.chatHistory = Append(@, [user |-> LatestRequest(st).message,
                                           bot  |-> DataText(data)]),
                !.inflight = @ \ {r}]

\* response.json() resolved with the object `data`: the rest of the try block.
jsonResolved(st, r, data) ==
    LET hidden == hideTypingIndicator(st.chatMessages)
    IN  IF addMessageThrows(DataText(data), DataType(data))
        THEN catchBlock(st, r, hidden)
        ELSE IF addSuggestionsThrows(data)
        THEN catchBlock(st, r,
                 Append(hidden, MessageDiv(DataText(data), FALSE,
                                           DataType(data), DataBooks(data))))
        ELSE [st EXCEPT
                !.chatMessages = addMessage(hidden, DataText(data), FALSE,
                                            DataType(data), DataBooks(data),
                                            DataSuggestions(data)),
                !.chatHistory = Append(@, [user |-> r.message,
                                           bot  |-> DataText(data)]),
                !.inflight = @ \ {r}]

\* data.suggestions.slice(0, 4)
SliceLimit == 4

\* Mutant of Slice: the whole list is rendered (slice left out).
SliceOmitted(s) == s

Slice(s) == SubSeq(s, 1, IF Len(s) < SliceLimit THEN Len(s) ELSE SliceLimit)

----------------------------------------------------------------------------
(* Inputs of the model *)

\* What the user leaves in the input field.
InputValues == { <<>>, <<" ">>, <<" ", "a", " ">> }

\* Keys handleKeyPress is called with.
Keys == {"Enter", "a"}

\* The chip of a panel the user clicks: its last.
ClickedChips(panel) == {Len(panel.chips)}

BotText == <<"h", "\n", "i">>

\* The body {} (no field at all).
EmptyObject == <<>>

\* Bodies the message endpoint answers with: a well-formed one, and three
\* without `text` (type 'text', 'book_list', omitted).
Responses ==
    { [text |-> BotText, suggestions |-> << <<"m">> >>],
      [type |-> "text"],
      [type |-> "book_list"],
      EmptyObject }

\* The k-th label the suggestions endpoint serves.
ServerLabel(k) == [i \in 1..k |-> "x"]

ServerList(n) == [k \in 1..n |-> ServerLabel(k)]

\* Bodies the suggestions endpoint answers with.
SuggestionBodies ==
    { [suggestions |-> ServerList(n)] : n \in 0..MaxServerSuggestions }
    \cup { [other |-> 0] }

----------------------------------------------------------------------------
(* Initial state: the script has run, nothing else has happened *)

Init ==
    /\ chatHistory = <<>>
    /\ chatMessages = <<>>
    /\ messageInput = <<>>
    /\ inflight = {}
    /\ nextId = 0
    /\ welcomeTimer = TRUE
    /\ loader = "fetch"
    /\ loaderData = <<>>
    /\ lastEvent = [op |-> "init"]

----------------------------------------------------------------------------
(* Events *)

Assign(st) ==
    /\ chatHistory' = st.chatHistory
    /\ chatMessages' = st.chatMessages
    /\ messageInput' = st.messageInput
    /\ inflight' = st.inflight
    /\ nextId' = st.nextId

startupVars == <<welcomeTimer, loader, loaderData>>

chatVars == <<chatHistory, messageInput, inflight, nextId>>

\* The user edits the input field.
TypeInput(v) ==
    /\ v # messageInput
    /\ messageInput' = v
    /\ lastEvent' = [op |-> "typeInput"]
    /\ UNCHANGED <<chatHistory, chatMessages, inflight, nextId, startupVars>>

\* A key is pressed in the input field.
KeyPress(key, maxSubmits) ==
    /\ handleKeyPress(State, key).nextId <= maxSubmits
    /\ Assign(handleKeyPress(State, key))
    /\ lastEvent' = [op |-> "keyPress", key |-> key]
    /\ UNCHANGED startupVars

\* The user clicks chip j of the panel at position i.
ChipClick(i, j, maxSubmits) ==
    /\ i \in DOMAIN chatMessages
    /\ IsSuggestions(chatMessages[i])
    /\ j \in ClickedChips(chatMessages[i])
    /\ j \in DOMAIN chatMessages[i].chips
    /\ LET suggestion == chatMessages[i].chips[j]
       IN  /\ chipOnClick(State, suggestion).nextId <= maxSubmits
           /\ Assign(chipOnClick(State, suggestion))
           /\ lastEvent' = [op |-> "chipClick", label |-> suggestion]
    /\ UNCHANGED startupVars

FetchResolve(r, ok) ==
    /\ r \in inflight
    /\ r.stage = "fetch"
    /\ Assign(fetchResolved(State, r, ok))
    /\ lastEvent' = [op |-> "fetchResolved", req |-> r]
    /\ UNCHANGED startupVars

FetchReject(r) ==
    /\ r \in inflight
    /\ r.stage = "fetch"
    /\ Assign(fetchRejected(State, r))
    /\ lastEvent' = [op |-> "fetchRejected", req |-> r]
    /\ UNCHANGED startupVars

JsonResolve(r, data) ==
    /\ r \in inflight
    /\ r.stage = "json"
    /\ Assign(jsonResolved(State, r, data))
    /\ lastEvent' = [op |-> "jsonResolved", req |-> r, data |-> data]
    /\ UNCHANGED startupVars

JsonReject(r) ==
    /\ r \in inflight
    /\ r.stage = "json"
    /\ Assign(jsonRejected(State, r))
    /\ lastEvent' = [op |-> "jsonRejected", req |-> r]
    /\ UNCHANGED startupVars

\* The 500 ms timer set when the script is loaded.
WelcomeTimer ==
    /\ welcomeTimer
    /\ welcomeTimer' = FALSE
    /\ chatMessages' = addSuggestions(chatMessages, WelcomeSuggestions)
    /\ lastEvent' = [op |-> "welcomeTimer"]
    /\ UNCHANGED <<chatVars, loader, loaderData>>

\* fetch('/api/chatbot/suggestions') resolved.
LoaderFetchResolve ==
    /\ loader = "fetch"
    /\ loader' = "json"
    /\ lastEvent' = [op |-> "loaderFetchResolved"]
    /\ UNCHANGED <<chatVars, chatMessages, welcomeTimer, loaderData>>

\* The fetch or response.json() rejected: .catch(console.error).
LoaderReject ==
    /\ loader \in {"fetch", "json"}
    /\ loader' = "done"
    /\ lastEvent' = [op |-> "loaderRejected"]
    /\ UNCHANGED <<chatVars, chatMessages, welcomeTimer, loaderData>>

\* Mutant of LoaderHasSuggestions: an empty list passes
\* (the `length > 0` test left out).
LoaderHasSuggestionsAnyLength(data) == "suggestions" \in DOMAIN data

\* data.suggestions && data.suggestions.length > 0
LoaderHasSuggestions(data) ==
    "suggestions" \in DOMAIN data /\ Len(data.suggestions) > 0

\* response.json() resolved with `data`: the second .then callback.
LoaderJsonResolve(data) ==
    /\ loader = "json"
    /\ IF LoaderHasSuggestions(data)
       THEN loader' = "timer" /\ loaderData' = data.suggestions
       ELSE loader' = "done" /\ loaderData' = loaderData
    /\ lastEvent' = [op |-> "loaderJsonResolved", data |-> data]
    /\ UNCHANGED <<chatVars, chatMessages, welcomeTimer>>

\* The 1000 ms timer; it was set after the welcome timer and is longer,
\* so it fires after it.
LoaderTimer ==
    /\ loader = "timer"
    /\ ~welcomeTimer
    /\ loader' = "done"
    /\ chatMessages' = addSuggestions(chatMessages, Slice(loaderData))
    /\ lastEvent' = [op |-> "loaderTimer", served |-> loaderData]
    /\ UNCHANGED <<chatVars, welcomeTimer, loaderData>>

--------------------------------------------------------------------------------------------------------------------------------------------------------------------------------------------------------------------------
(* Specification *)

\* The user's events: typing, keys, chip clicks.
UserNext(inputs, maxSubmits) ==
    \/ \E v \in inputs : TypeInput(v)
    \/ \E key \in Keys : KeyPress(key, maxSubmits)
    \/ \E i \in DOMAIN chatMessages, j \in 1..SliceLimit :
          ChipClick(i, j, maxSubmits)

\* The completions of the requests to the message endpoint.
RequestNext(responses, okFlags) ==
    \/ \E r \in inflight, ok \in okFlags : FetchResolve(r, ok)
    \/ \E r \in inflight : FetchReject(r)
    \/ \E r \in inflight, data \in responses : JsonResolve(r, data)
    \/ \E r \in inflight : JsonReject(r)

\* The two start-up suggestion sources.
StartupNext(bodies) ==
    \/ WelcomeTimer
    \/ LoaderFetchResolve
    \/ LoaderReject
    \/ \E data \in bodies : LoaderJsonResolve(data)
    \/ LoaderTimer

\* The whole program from the moment the script has run; the user submits
\* little while the start-up suggestions arrive.
StartupInputs == { <<" ">>, <<"a">> }

Next ==
    \/ UserNext(StartupInputs, MaxStartupSubmits)
    \/ RequestNext({[text |-> BotText]}, {TRUE})
    \/ StartupNext(SuggestionBodies)

Spec == Init /\ [][Next]_vars

\* A state after start-up: the welcome panel is rendered, the loader's fetch
\* was rejected and rendered nothing.
InitReady ==
    /\ chatHistory = <<>>
    /\ chatMessages = addSuggestions(<<>>, WelcomeSuggestions)
    /\ messageInput = <<>>
    /\ inflight = {}
    /\ nextId = 0
    /\ welcomeTimer = FALSE
    /\ loader = "done"
    /\ loaderData = <<>>
    /\ lastEvent = [op |-> "init"]

\* The conversation after start-up.
NextChat ==
    \/ UserNext(InputValues, MaxSubmits)
    \/ RequestNext(Responses, BOOLEAN)

SpecChat == InitReady /\ [][NextChat]_vars

\* Overlapping submissions: the user types one message and submits it again
\* and again; an answer is well formed or makes addMessage throw.
NextOverlap ==
    \/ TypeInput(<<"a">>)
    \/ KeyPress("Enter", MaxOverlap)
    \/ RequestNext({[text |-> BotText], [type |-> "text"]}, {TRUE})

SpecOverlap == InitReady /\ [][NextOverlap]_vars

\* Every issued request is eventually settled: the fetch resolves or rejects,
\* and the body of a resolved one decodes or fails to.
RequestSettles == RequestNext({[text |-> BotText], [type |-> "text"]}, {TRUE})

FairSpec == SpecOverlap /\ WF_vars(RequestSettles)

----------------------------------------------------------------------------
(* Vocabulary of the properties *)

\* Number of typing indicators among the children of #chatMessages.
IndicatorCount(cm) == Cardinality(IndicatorPositions(cm))

\* The children of #chatMessages other than typing indicators.
Transcript(cm) == SelectSeq(cm, LAMBDA e : ~IsTypingIndicator(e))

\* The fixed apology, as a plain bot message.
FallbackDiv ==
    [tag |-> "message", cls |-> "bot-message", html |-> FallbackText,
     cards |-> <<>>]

\* A plain user message.
UserDiv(message) ==
    [tag |-> "message", cls |-> "user-message", html |-> message,
     cards |-> <<>>]

\* Empty or whitespace-only.
IsBlank(s) == \A i \in DOMAIN s : s[i] \in Whitespace

\* The controller is Idle: no outstanding request, no indicator shown.
Idle == inflight = {} /\ IndicatorCount(chatMessages) = 0

EnterPressed == lastEvent.op = "keyPress" /\ lastEvent.key = "Enter"

RECURSIVE SumChips(_)
SumChips(cm) ==
    IF cm = <<>> THEN 0
    ELSE (IF IsSuggestions(Head(cm)) THEN Len(Head(cm).chips) ELSE 0)
         + SumChips(Tail(cm))

\* Number of suggestion chips the message container shows.
TotalChips == SumChips(chatMessages)

----------------------------------------------------------------------------
(* C1..C10 *)

\* C1: in every reachable state at most one request issued by sendMessage is
\* outstanding, also when the user submits again before the previous
\* response has arrived.
C1_AtMostOneOutstanding == Cardinality(inflight) <= 1

\* C2: in every reachable state the message container holds at most one
\* typing-indicator element.
C2_AtMostOneIndicator == IndicatorCount(chatMessages) <= 1

\* C3: sendMessage (Enter) with an empty or whitespace-only input field is a
\* complete no-op: transcript, indicator, requests, input field and
\* chatHistory are unchanged.
C3_BlankSubmitIsNoOp ==
    [][(EnterPressed' /\ IsBlank(messageInput))
        => UNCHANGED <<chatHistory, chatMessages, messageInput, inflight,
                       nextId>>]_vars

\* C3 witness: Enter was pressed on a whitespace-only input field while a
\* request was outstanding, and nothing was sent.
C3_Witness ==
    /\ EnterPressed
    /\ messageInput = <<" ">>
    /\ inflight # {}
    /\ nextId = 1

\* C4: once a transport failure (fetch rejects) is handled, no typing
\* indicator is present, exactly one fallback message was appended, the
\* controller is Idle and chatHistory is what it was before the submit.
C4_TransportFailure ==
    [][lastEvent'.op = "fetchRejected"
        => /\ IndicatorCount(chatMessages') = 0
           /\ Transcript(chatMessages')
                = Append(Transcript(chatMessages), FallbackDiv)
           /\ inflight' = {}
           /\ chatHistory' = lastEvent'.req.histAtSubmit]_vars

\* C5: from every reachable state, two calls of hideTypingIndicator in a row
\* leave no typing indicator; a call without an indicator changes nothing.
C5_HideTwice ==
    /\ IndicatorCount(hideTypingIndicator(hideTypingIndicator(chatMessages)))
         = 0
    /\ IndicatorCount(chatMessages) = 0
         => hideTypingIndicator(chatMessages) = chatMessages

\* C6: if every issued request eventually settles, a submit is eventually
\* followed by the Idle state; and a non-empty submit is accepted in every
\* state, also after failures: it appends its user message, shows the
\* indicator and issues one new request carrying the message.
C6_SubmitAccepted ==
    (EnterPressed' /\ ~IsBlank(messageInput))
        => /\ chatMessages'
                = chatMessages \o <<UserDiv(Trim(messageInput)), TypingDiv>>
           /\ \E r \in inflight' :
                /\ inflight' = inflight \cup {r}
                /\ r \notin inflight
                /\ r.stage = "fetch"
                /\ r.message = Trim(messageInput)

C7_MissingTextIsFailure ==
    [][(lastEvent'.op = "jsonResolved" /\ "text" \notin DOMAIN lastEvent'.data)
        => /\ \/ IndicatorCount(chatMessages') = 0
              \/ IndicatorCount(chatMessages') < IndicatorCount(chatMessages)
           /\ Transcript(chatMessages')
                = Append(Transcript(chatMessages), FallbackDiv)
           /\ chatHistory' = chatHistory]_vars

\* C8: a non-OK response with a well-formed body gives what an unreachable
\* network gives: the fallback message is appended, the server's text is not
\* rendered, chatHistory is not extended.
C8_ErrorStatusIsFailure ==
    [][(/\ lastEvent'.op = "jsonResolved"
        /\ ~lastEvent'.req.ok
        /\ "text" \in DOMAIN lastEvent'.data)
        => /\ Transcript(chatMessages')
                = Append(Transcript(chatMessages), FallbackDiv)
           /\ chatHistory' = chatHistory]_vars

\* C9: clicking a chip labelled s gives the state that setting the input
\* field to s and pressing Enter gives from the same state (transcript,
\* input field, indicator, request and payload, chatHistory).
C9_ChipEqualsTyping ==
    [][lastEvent'.op = "chipClick"
        => State' = handleKeyPress(
                        [State EXCEPT !.messageInput = lastEvent'.label],
                        "Enter")]_vars

\* C9 witness: a chip was clicked while another request was outstanding;
\* the chip's label was rendered as the user message and sent.
C9_Witness ==
    /\ lastEvent.op = "chipClick"
    /\ Cardinality(inflight) = 2
    /\ \E r \in inflight : r.id = 2 /\ r.message = lastEvent.label
    /\ chatMessages[Len(chatMessages) - 1] = UserDiv(lastEvent.label)

\* The first k elements of s.
FirstN(s, k) == [i \in 1..k |-> s[i]]

MinOf(a, b) == IF a < b THEN a ELSE b

\* The loader renders the first min(n, 4) of the n labels served, as one
\* panel, and nothing when n = 0.
LoaderRendersFirstFour ==
    /\ lastEvent'.op = "loaderJsonResolved"
         => /\ chatMessages' = chatMessages
            /\ IF LoaderHasSuggestions(lastEvent'.data)
               THEN loader' = "timer"
                    /\ loaderData' = lastEvent'.data.suggestions
               ELSE loader' = "done"
    /\ lastEvent'.op = "loaderTimer"
         => chatMessages'
              = Append(chatMessages,
                       [tag |-> "suggestions",
                        chips |-> FirstN(loaderData,
                                         MinOf(Len(loaderData), 4))])

\* C10 as claimed: the loader renders the first min(n, 4) labels, and before
\* any submit the container never shows more than 4 chips in total.
C10_AtMostFourChips ==
    /\ [][LoaderRendersFirstFour]_vars
    /\ [](nextId = 0 => TotalChips <= 4)

\* C10 as amended: the loader renders the first min(n, 4) labels, and before
\* any submit the container shows at most 8 chips: the 4 welcome chips and
\* at most 4 of the loader.
C10_AtMostEightChips ==
    /\ [][LoaderRendersFirstFour]_vars
    /\ [](nextId = 0 => TotalChips <= Len(WelcomeSuggestions) + 4)

\* C10 witness: the server served 5 labels, 4 were rendered below the 4
\* welcome chips, and nothing was submitted yet.
C10_Witness ==
    /\ lastEvent.op = "loaderTimer"
    /\ Len(lastEvent.served) = 5
    /\ Len(chatMessages[Len(chatMessages)].chips) = 4
    /\ TotalChips = 8
    /\ nextId = 0

----------------------------------------------------------------------------
(* Book lists *)

\* Longest list of books an answer carries, in SpecBooks.
MaxBooks == 2

\* Number of submits in SpecBooks.
MaxBookSubmits == 1

\* Ratings run from 0 to 5 (the marker reads rating/5).
RatingScale == 5

\* Books with title and author, with or without genre, with or without
\* rating; the title tells the books apart.
Books ==
    { [title |-> <<"D">>, author |-> <<"F">>],
      [title |-> <<"E">>, author |-> <<"F">>, genre |-> <<"g">>] }
    \cup { [title |-> <<"R", Digit(n)>>, author |-> <<"G">>, rating |-> n] :
             n \in 0..RatingScale }
    \cup { [title |-> <<"S">>, author |-> <<"G">>, genre |-> <<"g">>,
            rating |-> RatingScale] }

BookLists ==
    UNION { [1..n -> Books] : n \in 0..MaxBooks }

\* Answers of type 'book_list' with a heading and a list of books.
BookResponses ==
    { [text |-> BotText, type |-> "book_list", books |-> bs] :
        bs \in BookLists }

\* One exchange whose answer is a book list.
NextBooks ==
    \/ TypeInput(<<"a">>)
    \/ KeyPress("Enter", MaxBookSubmits)
    \/ RequestNext(BookResponses, {TRUE})

SpecBooks == InitReady /\ [][NextBooks]_vars

\* The lines of class cls on a card.
CardLines(card, cls) == SelectSeq(card, LAMBDA line : line.cls = cls)

\* Card `card` shows book `book` as claimed: title and author, a genre line
\* exactly when the book carries a genre, a rating marker rating/5 exactly
\* when it carries a rating.
CardShows(card, book) ==
    /\ CardLines(card, "book-title")
         = << [cls |-> "book-title", text |-> book.title] >>
    /\ CardLines(card, "book-author")
         = << [cls |-> "book-author",
               text |-> <<"b", "y", " ">> \o book.author] >>
    /\ CardLines(card, "genre")
         = IF "genre" \in DOMAIN book
           THEN << [cls |-> "genre", text |-> book.genre] >> ELSE <<>>
    /\ CardLines(card, "book-rating")
         = IF "rating" \in DOMAIN book
           THEN << [cls |-> "book-rating",
                    text |-> <<Digit(book.rating), "/", "5">>] >>
           ELSE <<>>

\* C11: a book_list message is rendered with exactly one card per book, in
\* the order of the books, each card with a rating marker exactly when its
\* book carries a rating (0 to 5) and a genre line exactly when it carries
\* a genre.
C11_OneCardPerBook ==
    [][(/\ lastEvent'.op = "jsonResolved"
        /\ DataType(lastEvent'.data) = "book_list"
        /\ "text" \in DOMAIN lastEvent'.data)
        => LET books == DataBooks(lastEvent'.data)
               div   == chatMessages'[Len(chatMessages')]
           IN  /\ IsMessage(div)
               /\ Len(div.cards) = Len(books)
               /\ \A i \in 1..Len(books) :
                    CardShows(div.cards[i], books[i])]_vars

----------------------------------------------------------------------------
(* Replies *)

\* Number of submits in SpecReplies.
MaxReplySubmits == 2

OtherText == <<"y", "o">>

OneBook == << [title |-> <<"D">>, author |-> <<"F">>, rating |-> 5] >>

\* Answers that carry `text`, with the optional fields present or omitted,
\* and one that makes addMessage throw.
ReplyBodies ==
    { [text |-> BotText],
      [text |-> OtherText, books |-> OneBook],
      [text |-> OtherText, type |-> "book_list"],
      [text |-> BotText, type |-> "book_list", books |-> OneBook,
       suggestions |-> << <<"m">> >>],
      [type |-> "text"] }

\* The user types one of two messages and submits, also while a request is
\* outstanding; the requests complete in any order.
NextReplies ==
    \/ \E v \in { <<"a">>, <<"b">> } : TypeInput(v)
    \/ KeyPress("Enter", MaxReplySubmits)
    \/ RequestNext(ReplyBodies, {TRUE})

SpecReplies == InitReady /\ [][NextReplies]_vars

\* The last message entry among the children cm.
LastMessage(cm) ==
    cm[CHOOSE i \in DOMAIN cm :
         IsMessage(cm[i]) /\ \A j \in DOMAIN cm : IsMessage(cm[j]) => j <= i]

\* Number of suggestion panels among the children cm.
PanelCount(cm) == Cardinality({i \in DOMAIN cm : IsSuggestions(cm[i])})

\* Number of message entries among the children cm.
MessageCount(cm) == Cardinality({i \in DOMAIN cm : IsMessage(cm[i])})

\* The text t as a plain bot message: its line breaks as <br>, no cards.
PlainBotDiv(t) ==
    [tag |-> "message", cls |-> "bot-message",
     html |-> [i \in DOMAIN t |-> IF t[i] = "\n" THEN "<br>" ELSE t[i]],
     cards |-> <<>>]

\* C12: when the response to the submit of m carries text t, exactly one
\* record is appended to chatHistory, with user = m and bot = t; with `type`
\* omitted the bot message is plain text; with `books` omitted it has no
\* cards; with `suggestions` omitted no suggestion panel is appended.
C12_SuccessfulResponse ==
    [][(lastEvent'.op = "jsonResolved" /\ "text" \in DOMAIN lastEvent'.data)
        => LET data == lastEvent'.data
               div  == LastMessage(chatMessages')
           IN  /\ chatHistory'
                    = Append(chatHistory, [user |-> lastEvent'.req.message,
                                           bot  |-> data.text])
               /\ MessageCount(chatMessages') = MessageCount(chatMessages) + 1
               /\ div.cls = "bot-message"
               /\ "type" \notin DOMAIN data => div = PlainBotDiv(data.text)
               /\ "books" \notin DOMAIN data => div.cards = <<>>
               /\ "suggestions" \notin DOMAIN data
                    => /\ PanelCount(chatMessages') = PanelCount(chatMessages)
                       /\ chatMessages'[Len(chatMessages')] = div]_vars

\* C12 witness: the second of two overlapping requests was answered first,
\* with a body carrying nothing but text, and its record is in chatHistory.
C12_Witness ==
    /\ lastEvent.op = "jsonResolved"
    /\ lastEvent.data = [text |-> BotText]
    /\ lastEvent.req.id = 2
    /\ lastEvent.req.message = <<"b">>
    /\ \E r \in inflight : r.id = 1 /\ r.message = <<"a">>
    /\ chatHistory = << [user |-> <<"b">>, bot |-> BotText] >>
    /\ chatMessages[Len(chatMessages)] = PlainBotDiv(BotText)

----------------------------------------------------------------------------
(* Order of events *)

\* The user messages among the children cm, in order.
UserMessages(cm) ==
    SelectSeq(cm, LAMBDA e : IsMessage(e) /\ e.cls = "user-message")

\* The state sendMessage was called in by the step just taken: a chip click
\* first sets the input field to the chip's label.
SubmitState ==
    IF lastEvent'.op = "chipClick"
    THEN [State EXCEPT !.messageInput = lastEvent'.label]
    ELSE State

\* The step just taken called sendMessage and it got past the empty check.
Submitted == lastEvent'.op \in {"keyPress", "chipClick"} /\ nextId' # nextId

\* The step just taken handled the completion of a request.
Handled ==
    lastEvent'.op \in {"fetchResolved", "fetchRejected", "jsonResolved",
                       "jsonRejected"}

\* The position of the first step with the event e.
StepOf(steps, e) == CHOOSE i \in DOMAIN steps : steps[i].event = e

\* The user message of every outstanding request is in the transcript.
C13_UserMessageRendered ==
    \A r \in inflight :
        /\ r.id <= Len(UserMessages(chatMessages))
        /\ UserMessages(chatMessages)[r.id] = UserDiv(r.message)

C13_StepOrder ==
    /\ Submitted
        => LET steps == sendMessageSteps(SubmitState)
               m     == Trim(SubmitState.messageInput)
               um    == StepOf(steps, "userMessage")
               ic    == StepOf(steps, "inputCleared")
               is    == StepOf(steps, "indicatorShown")
               ri    == StepOf(steps, "requestIssued")
           IN  /\ Len(steps) = 4
               /\ um < ic /\ ic < is /\ is < ri
               /\ steps[um].st.chatMessages
                    = Append(chatMessages, UserDiv(m))
               /\ steps[um].st.inflight = inflight
               /\ steps[ic].st.messageInput = <<>>
               /\ steps[ic].st.inflight = inflight
               /\ steps[is].st.chatMessages
                    = chatMessages \o <<UserDiv(m), TypingDiv>>
               /\ steps[is].st.inflight = inflight
               /\ \E r \in steps[ri].st.inflight :
                    /\ r.message = m
                    /\ r.stage = "fetch"
                    /\ steps[ri].st.inflight = inflight \cup {r}
                    /\ r \notin inflight
               /\ State' = steps[ri].st
    /\ Handled
        => /\ lastEvent'.req \in inflight
           /\ lastEvent'.req.id <= nextId
           /\ lastEvent'.req.id <= Len(UserMessages(chatMessages))

\* C13: a sendMessage call with non-empty input appends the user message,
\* clears the input field, shows the typing indicator and issues the
\* request, in this order, and the handling of the response or failure
\* comes after all of them: no request is outstanding whose user message is
\* not in the transcript, and only a request issued after its indicator was
\* shown is ever handled.
C13_SubmitOrder ==
    /\ []C13_UserMessageRendered
    /\ [][C13_StepOrder]_vars

\* C13 witness: a second request was issued while the first was outstanding,
\* and a completion of the first was handled after that.
C13_Witness ==
    /\ lastEvent.op = "fetchResolved"
    /\ lastEvent.req.id = 1
    /\ \E r \in inflight : r.id = 2 /\ r.stage = "fetch"
    /\ Len(UserMessages(chatMessages)) = 2

\* C14: in every reachable state a typing indicator is present if and only
\* if at least one request is pending (issued and not yet handled), also
\* under overlapping submissions and when a response fails to decode or
\* render.
C14_IndicatorIffPending ==
    (IndicatorCount(chatMessages) > 0) <=> (inflight # {})

----------------------------------------------------------------------------
(* Bot entries *)

\* The body {"text": ..., "suggestions": "more"}: `suggestions` is a string.
StringSuggestionsBody == [text |-> OtherText, suggestionsString |-> <<"m">>]

\* The answers of SpecReplies, and one whose `suggestions` is not an array.
AnyBodies == ReplyBodies \cup {StringSuggestionsBody}

NextBodies ==
    \/ \E v \in { <<"a">>, <<"b">> } : TypeInput(v)
    \/ KeyPress("Enter", MaxReplySubmits)
    \/ RequestNext(AnyBodies, {TRUE})

SpecBodies == InitReady /\ [][NextBodies]_vars

\* The message entries among the children cm, in order.
Messages(cm) == SelectSeq(cm, IsMessage)

\* The bot messages among the children cm, in order.
BotMessages(cm) ==
    SelectSeq(cm, LAMBDA e : IsMessage(e) /\ e.cls = "bot-message")

\* The step just taken handled the completion of a request to its end.
Completed ==
    lastEvent'.op \in {"fetchRejected", "jsonResolved", "jsonRejected"}

C15_OneEntryPerCompletion ==
    IF Completed
    THEN \E d \in {FallbackDiv} \cup
                  (IF lastEvent'.op = "jsonResolved"
                   THEN {MessageDiv(DataText(lastEvent'.data), FALSE,
                                    DataType(lastEvent'.data),
                                    DataBooks(lastEvent'.data))}
                   ELSE {}) :
            Messages(chatMessages') = Append(Messages(chatMessages), d)
    ELSE BotMessages(chatMessages') = BotMessages(chatMessages)

\* C15: handling the completion of a request appends exactly one bot entry
\* to the transcript, the rendered reply or the fallback message, never both
\* and never none; so the number of bot entries is the number of completed
\* requests and at most the number of user entries.
C15_OneBotEntryPerRequest ==
    /\ [](/\ Len(BotMessages(chatMessages)) = nextId - Cardinality(inflight)
          /\ Len(BotMessages(chatMessages))
               <= Len(UserMessages(chatMessages)))
    /\ [][C15_OneEntryPerCompletion]_vars

----------------------------------------------------------------------------
(* chatHistory *)

\* The step just taken rendered the response of a request: it appended one
\* bot message that is not the fallback message.
Rendered ==
    /\ lastEvent'.op = "jsonResolved"
    /\ \E d \in {LastMessage(chatMessages')} :
          /\ d # FallbackDiv
          /\ Messages(chatMessages') = Append(Messages(chatMessages), d)

\* Number of rendered responses: the bot messages other than the fallback.
RenderedCount(cm) ==
    Cardinality({i \in DOMAIN cm :
                    /\ IsMessage(cm[i])
                    /\ cm[i].cls = "bot-message"
                    /\ cm[i] # FallbackDiv})

C16_HistoryStep ==
    IF Rendered
    THEN chatHistory'
           = Append(chatHistory, [user |-> lastEvent'.req.message,
                                  bot  |-> DataText(lastEvent'.data)])
    ELSE chatHistory' = chatHistory

\* C16: with overlapping requests completing in any order, every chatHistory
\* record pairs the message of a request with the text of the response to
\* that same request; chatHistory only grows by appending; its length is the
\* number of requests whose response was rendered.
C16_HistoryPairsRequestAndResponse ==
    /\ [](Len(chatHistory) = RenderedCount(chatMessages))
    /\ [][C16_HistoryStep]_vars

\* C16 witness: "a" was submitted before "b", "b" was answered first; each
\* record holds its own request's message and text.
C16_Witness ==
    /\ lastEvent.op = "jsonResolved"
    /\ lastEvent.req.id = 1
    /\ lastEvent.req.message = <<"a">>
    /\ chatHistory = << [user |-> <<"b">>, bot |-> OtherText],
                        [user |-> <<"a">>, bot |-> BotText] >>

----------------------------------------------------------------------------
(* Suggestion panels *)

\* Answers with `suggestions` omitted, empty, and holding two labels.
PanelBodies ==
    { [text |-> BotText],
      [text |-> BotText, suggestions |-> <<>>],
      [text |-> OtherText, suggestions |-> << <<"m">>, <<"n">> >>] }

\* The whole program from the moment the script has run, with answers that
\* carry suggestions or none.
NextPanels ==
    \/ UserNext(StartupInputs, MaxStartupSubmits)
    \/ RequestNext(PanelBodies, {TRUE})
    \/ StartupNext(SuggestionBodies)

SpecPanels == Init /\ [][NextPanels]_vars

\* The panel made of the labels, one chip per label, in order.
PanelOf(labels) == [tag |-> "suggestions", chips |-> labels]

\* What the addMessage call of the step just taken appended, given the
\* message entry div and the suggestions it was called with.
AppendsMessageAndPanel(div, suggestions) ==
    /\ Transcript(chatMessages')
         = Transcript(chatMessages) \o <<div>>
             \o (IF suggestions # <<>> THEN <<PanelOf(suggestions)>> ELSE <<>>)
    /\ PanelCount(chatMessages')
         = PanelCount(chatMessages) + (IF suggestions # <<>> THEN 1 ELSE 0)

C17_AddMessageStep ==
    /\ (lastEvent'.op = "jsonResolved" /\ "text" \in DOMAIN lastEvent'.data)
        => AppendsMessageAndPanel(
               MessageDiv(lastEvent'.data.text, FALSE,
                          DataType(lastEvent'.data),
                          DataBooks(lastEvent'.data)),
               DataSuggestions(lastEvent'.data))
    /\ lastEvent'.op \in {"fetchRejected", "jsonRejected"}
        => AppendsMessageAndPanel(FallbackDiv, <<>>)
    /\ Submitted
        => AppendsMessageAndPanel(UserDiv(Trim(SubmitState.messageInput)),
                                  <<>>)

\* C17: addMessage appends a suggestion panel if and only if its suggestions
\* are non-empty, and then exactly one, right after its message entry, with
\* one chip per label in the given order; no panel without chips is ever in
\* the message container, whatever start-up, submit and response events
\* have happened.
C17_PanelIffSuggestions ==
    /\ [](\A i \in DOMAIN chatMessages :
             IsSuggestions(chatMessages[i])
                => Len(chatMessages[i].chips) > 0)
    /\ [][C17_AddMessageStep]_vars

\* C17 witness: an answer with two suggestions was rendered; its panel with
\* the two chips follows its message entry.
C17_Witness ==
    /\ lastEvent.op = "jsonResolved"
    /\ Len(chatMessages) >= 2
    /\ chatMessages[Len(chatMessages)] = PanelOf(<< <<"m">>, <<"n">> >>)
    /\ chatMessages[Len(chatMessages) - 1] = PlainBotDiv(OtherText)

----------------------------------------------------------------------------
(* Start-up loader *)

\* The loader is done and has rendered nothing of its own: its fetch or the
\* decoding failed, or the body held no suggestions; and no answer of the
\* message endpoint has been handled.
LoaderGotNothing == loader = "done" /\ loaderData = <<>> /\ chatHistory = <<>>

\* The step just taken was one of the loader's.
LoaderStep ==
    lastEvent'.op \in {"loaderFetchResolved", "loaderRejected",
                       "loaderJsonResolved", "loaderTimer"}

\* The loader leaves the conversation alone: no request, no indicator, no
\* message entry, chatHistory and the input field as they were.
C18_LoaderFrame ==
    LoaderStep
        => /\ UNCHANGED <<chatHistory, inflight, nextId, messageInput>>
           /\ IndicatorCount(chatMessages') = IndicatorCount(chatMessages)
           /\ Messages(chatMessages') = Messages(chatMessages)

\* C18: if the start-up suggestions fetch fails or returns no suggestions,
\* initialization renders no suggestion panel at all; and the loader always
\* leaves the conversation state unchanged (no chat request, no typing
\* indicator, no message entry, chatHistory unmodified).
C18_NoPanelAtAll ==
    /\ [](LoaderGotNothing => PanelCount(chatMessages) = 0)
    /\ [][C18_LoaderFrame]_vars

\* C18 as amended: if the start-up suggestions fetch fails or returns no
\* suggestions, the loader renders nothing, so the only suggestion panel of
\* initialization is the welcome timer's, with its four fixed labels; and the
\* loader always leaves the conversation state unchanged.
C18_OnlyWelcomePanel ==
    /\ [](LoaderGotNothing
            => /\ PanelCount(chatMessages) = (IF welcomeTimer THEN 0 ELSE 1)
               /\ \A i \in DOMAIN chatMessages :
                     IsSuggestions(chatMessages[i])
                        => chatMessages[i] = PanelOf(WelcomeSuggestions))
    /\ [][(LoaderStep /\ lastEvent'.op # "loaderTimer")
            => chatMessages' = chatMessages]_vars
    /\ [][C18_LoaderFrame]_vars

\* C18 witness: the loader's fetch was rejected while a chat request was
\* outstanding; the welcome panel is the only panel.
C18_Witness ==
    /\ lastEvent.op = "loaderRejected"
    /\ LoaderGotNothing
    /\ inflight # {}
    /\ IndicatorCount(chatMessages) = 1
    /\ PanelCount(chatMessages) = 1

====
